---- MODULE Spec2Model ----
(***************************************************************************)
(* Model of siglent/screen_capture.py: class ScreenCapture.                *)
(*                                                                         *)
(* Text (str) and binary data (bytes) are sequences of character codes /   *)
(* byte values.  The transport (Oscilloscope.write, Oscilloscope.query and *)
(* _connection.read_raw) is the environment: every operation may raise.    *)
(* The instrument's output is a stream: a write makes the instrument send  *)
(* some bytes, read_raw takes bytes off the stream.  The code cannot see a *)
(* byte before it reads it, so the model keeps the number of unread bytes  *)
(* and draws their values when they are read.                              *)
(* One action is one stretch of code that ends with a transport operation  *)
(* and the local computation that follows it up to the next one.           *)
(*                                                                         *)
(* Spec follows capture_screenshot calls made one after another, SpecSave  *)
(* calls made through save_screenshot, SpecInfer the format save_screenshot *)
(* infers for a wide set of paths, SpecReplay a call that is repeated with *)
(* the same responses, SpecConc two callers that use one ScreenCapture at  *)
(* the same time.                                                          *)
(***************************************************************************)
EXTENDS Integers, Sequences, FiniteSets, TLC

VARIABLES
    oscilloscope,   \* the Oscilloscope instance handed to __init__
    _scope,         \* self._scope
    pc,             \* position of the thread inside capture_screenshot
    token,          \* the caller's argument of the current call
    calls,          \* number of capture_screenshot calls that have returned or raised
    image_format,   \* parameter / local image_format (rebound on lines 51 and 57)
    header,         \* local header of _capture_with_scdp
    num_digits,     \* local num_digits of _capture_with_scdp
    length_bytes,   \* local length_bytes of _capture_with_scdp
    data_length,    \* local data_length of _capture_with_scdp
    image_data,     \* local image_data of _capture_with_scdp
    excA,           \* exception caught on line 79 (logged on line 80), or NoExc
    retA,           \* value _capture_with_scdp returned on line 75, or NoValue
    excB,           \* exception caught on line 89 (logged on line 90), or NoExc
    retB,           \* value _capture_with_hcsu returned on line 85, or NoValue
    response,       \* local response of _capture_with_hcsu
    result,         \* outcome of the call as the caller sees it
    ops,            \* transport operations and sleeps of the current call, in order
    unread,         \* number of bytes the instrument has sent that nothing has read yet
    hardcopy_format, \* the instrument's hardcopy format setting
    save,           \* frame of save_screenshot: its arguments and how it ended
    file,           \* the file at the path handed to save_screenshot
    other,          \* a second caller that uses the same ScreenCapture
    prev            \* what an earlier call was given and did, kept for comparison

vars == <<oscilloscope, _scope, pc, token, calls, image_format, header, num_digits,
          length_bytes, data_length, image_data, excA, retA, excB, retB, response,
          result, ops, unread, hardcopy_format, save, file, other, prev>>

----------------------------------------------------------------------------
\* Bounds of the model.

\* Largest number of unread bytes of instrument output on the transport.
MaxResp == 4

\* Number of capture_screenshot calls in a behaviour.
MaxCalls == 2

----------------------------------------------------------------------------
\* Text constants of the source, as character codes.

PNG == <<80, 78, 71>>
BMP == <<66, 77, 80>>
JPEG == <<74, 80, 69, 71>>
JPG == <<74, 80, 71>>

\* SUPPORTED_FORMATS = ["PNG", "BMP", "JPEG", "JPG"]
SUPPORTED_FORMATS == {PNG, BMP, JPEG, JPG}

\* "HCSU DEV,FORMAT," of f"HCSU DEV,FORMAT,{image_format}"
HCSU_DEV_FORMAT == <<72, 67, 83, 85, 32, 68, 69, 86, 44, 70, 79, 82, 77, 65, 84, 44>>

\* Fault variant: the dump is asked for in query form.
SCDP_Query == <<83, 67, 68, 80, 63>>

\* "SCDP"
SCDP == <<83, 67, 68, 80>>

\* Fault variant: Method 2 starts by writing a format command.
HCSU_PRINT_Format == <<72, 67, 83, 85, 32, 68, 69, 86, 44, 70, 79, 82, 77, 65, 84, 44, 80, 78, 71>>

\* "HCSU PRINT"
HCSU_PRINT == <<72, 67, 83, 85, 32, 80, 82, 73, 78, 84>>

\* "HCSU?"
HCSU_QUERY == <<72, 67, 83, 85, 63>>

\* b'#'
HASH == <<35>>

----------------------------------------------------------------------------
\* Values of the model.

Min(a, b) == IF a < b THEN a ELSE b

\* s without its first k elements.
Drop(s, k) == SubSeq(s, k + 1, Len(s))

\* An exception object: its class and the text str(e) is built from.
Exc(type, msg, expected, got) ==
    [type |-> type, msg |-> msg, expected |-> expected, got |-> got]

NoExc == Exc("none", "", 0, 0)

\* A value of the dynamically typed query(): bytes or str.
Bytes(b) == [type |-> "bytes", val |-> b]
Str(s) == [type |-> "str", val |-> s]
NoValue == [type |-> "none", val |-> <<>>]

\* What the caller of capture_screenshot gets.
NoResult == [kind |-> "none", value |-> <<>>, msg |-> "", arg |-> <<>>, cause |-> NoExc]
Returned(b) == [kind |-> "return", value |-> b, msg |-> "", arg |-> <<>>, cause |-> NoExc]
Raised(kind, msg, arg, cause) ==
    [kind |-> kind, value |-> <<>>, msg |-> msg, arg |-> arg, cause |-> cause]

\* The file at a path: absent, or present with its content.
NoFile == [exists |-> FALSE, data |-> <<>>]
FileWith(b) == [exists |-> TRUE, data |-> b]

\* The frame of save_screenshot: no such call is running, or its arguments
\* (given is FALSE when image_format is None), the file the path held when
\* the call was made and how the file write ended.
NoSave ==
    [active |-> FALSE, filename |-> <<>>, given |-> FALSE, image_format |-> <<>>,
     before |-> NoFile, outcome |-> "none"]
SaveFrame(fn, given, fmt, f) ==
    [active |-> TRUE, filename |-> fn, given |-> given, image_format |-> fmt,
     before |-> f, outcome |-> "none"]

\* No earlier call is kept for comparison.
NoPrev ==
    [kept |-> FALSE, token |-> <<>>, ops |-> <<>>, header |-> <<>>,
     length_bytes |-> <<>>, image_data |-> <<>>, response |-> NoValue,
     result |-> NoResult]

\* Entries of the log of transport operations.
WriteOp(cmd, ok) == [op |-> "write", cmd |-> cmd, n |-> 0, ok |-> ok]
QueryOp(cmd, ok) == [op |-> "query", cmd |-> cmd, n |-> 0, ok |-> ok]
ReadOp(n, ok) == [op |-> "read_raw", cmd |-> <<>>, n |-> n, ok |-> ok]
SleepOp(ms) == [op |-> "sleep", cmd |-> <<>>, n |-> ms, ok |-> TRUE]

----------------------------------------------------------------------------
\* The environment: callers, the transport and the instrument.

\* The Oscilloscope instances a ScreenCapture may be constructed with.
Oscilloscopes == {"scope"}
NoScope == "None"

\* Format tokens callers pass: supported names in lower, upper and mixed case
\* ("png", "BMP", "JpEg", "jpg", "JPG") and unsupported ones ("TIFF", "tiff", "").
Tokens ==
    { <<112, 110, 103>>, BMP, <<74, 112, 69, 103>>, <<106, 112, 103>>, JPG,
      <<84, 73, 70, 70>>, <<116, 105, 102, 102>>, <<>> }

\* Paths callers pass to save_screenshot: a directory part ("", "d/",
\* "d.bmp/", "./"), a stem ("", "a", ".", "..", "a.", "a.x") and an ending:
\* none, ".", the extensions png, bmp, jpg and jpeg in every mix of letter
\* case, ".tif", ".pn" and ".pngx".
CaseMixes(name) ==
    { [i \in 1..Len(name) |-> IF i \in low THEN name[i] + 32 ELSE name[i]] :
        low \in SUBSET (1..Len(name)) }
PathEndings ==
    { <<>>, <<46>>, <<46, 116, 105, 102>>, <<46, 112, 110>>,
      <<46, 112, 110, 103, 120>> }
    \cup { <<46>> \o e : e \in UNION { CaseMixes(n) : n \in {PNG, BMP, JPG, JPEG} } }
Paths ==
    { d \o st \o e :
        d \in { <<>>, <<100, 47>>, <<100, 46, 98, 109, 112, 47>>, <<46, 47>> },
        st \in { <<>>, <<97>>, <<46>>, <<46, 46>>, <<97, 46>>, <<97, 46, 120>> },
        e \in PathEndings }

\* Arguments of the save_screenshot calls whose capture and file write are
\* followed to the end: ("a.bmp", None), ("a", None), ("a.png", "bmp") and
\* ("a.JPG", "TIFF").
SaveArgs ==
    { [filename |-> <<97, 46, 98, 109, 112>>, given |-> FALSE, image_format |-> <<>>],
      [filename |-> <<97>>, given |-> FALSE, image_format |-> <<>>],
      [filename |-> <<97, 46, 112, 110, 103>>, given |-> TRUE,
       image_format |-> <<98, 109, 112>>],
      [filename |-> <<97, 46, 74, 80, 71>>, given |-> TRUE,
       image_format |-> <<84, 73, 70, 70>>] }

\* What the path holds before save_screenshot is called: nothing, or a file
\* with one byte.
FilesBefore == {NoFile, FileWith(<<48>>)}

\* Byte values the instrument sends: '#', '+', '0', '1', '2'.
ByteAlphabet == {35, 43, 48, 49, 50}

\* Exceptions the transport raises from write, read_raw and query.
TransportError == Exc("TimeoutError", "timed out", 0, 0)

\* Values query("HCSU?") may return: binary data (none, the block "#112",
\* the malformed header "#0") ...
QueryBytes == {<<>>, <<35, 49, 49, 50>>, <<35, 48>>}
\* ... or text ("", "ERR", "#112").
QueryTexts == {<<>>, <<69, 82, 82>>, <<35, 49, 49, 50>>}

\* Lengths read_raw(n) may return: fewer bytes than asked for when the
\* transport times out, and up to one more from a transport that ignores n.
ReadLens(n) == 0..Min(n + 1, unread)

\* Values read_raw(n) may return.
ReadValues(n) == UNION {[1..k -> ByteAlphabet] : k \in ReadLens(n)}

\* The instrument's hardcopy format after it receives cmd.
\* What the transport may return where it can return any value of values:
\* any of them, but only the kept one once an earlier call is kept and the
\* instrument repeats its responses.
Answers(values, kept) == IF prev.kept THEN values \cap {kept} ELSE values

IsPrefix(p, s) == Len(p) <= Len(s) /\ SubSeq(s, 1, Len(p)) = p
InstrumentFormat(cmd, current) ==
    IF IsPrefix(HCSU_DEV_FORMAT, cmd) THEN Drop(cmd, Len(HCSU_DEV_FORMAT)) ELSE current

----------------------------------------------------------------------------
\* Python built-ins the code relies on.

\* str.upper() on one character: 'a'..'z' become 'A'..'Z'.
UpperChar(c) == IF c \in 97..122 THEN c - 32 ELSE c

\* str.upper()
Upper(s) == [i \in 1..Len(s) |-> UpperChar(s[i])]

\* Characters int() strips from both ends of its argument.
IsSpace(c) == c \in (9..13) \cup (28..32)

IsDigit(c) == c \in 48..57

RECURSIVE LStrip(_)
LStrip(s) == IF s # <<>> /\ IsSpace(s[1]) THEN LStrip(Tail(s)) ELSE s

RECURSIVE RStrip(_)
RStrip(s) ==
    IF s # <<>> /\ IsSpace(s[Len(s)]) THEN RStrip(SubSeq(s, 1, Len(s) - 1)) ELSE s

\* The digits of an int() literal: non-empty, digits with single underscores
\* between them.
IsIntBody(s) ==
    /\ s # <<>>
    /\ IsDigit(s[1])
    /\ IsDigit(s[Len(s)])
    /\ \A i \in 1..Len(s) : IsDigit(s[i]) \/ s[i] = 95
    /\ \A i \in 1..(Len(s) - 1) : ~(s[i] = 95 /\ s[i + 1] = 95)

RECURSIVE IntBodyValue(_)
IntBodyValue(s) ==
    IF s = <<>> THEN 0
    ELSE IF s[Len(s)] = 95 THEN IntBodyValue(SubSeq(s, 1, Len(s) - 1))
    ELSE 10 * IntBodyValue(SubSeq(s, 1, Len(s) - 1)) + (s[Len(s)] - 48)

\* int(text): surrounding whitespace is stripped, one sign is accepted;
\* ok = FALSE stands for ValueError.
PyInt(text) ==
    LET t == RStrip(LStrip(text))
        signed == t # <<>> /\ t[1] \in {43, 45}
        body == IF signed THEN Tail(t) ELSE t
    IN  IF IsIntBody(body)
        THEN [ok |-> TRUE,
              val |-> IF signed /\ t[1] = 45 THEN 0 - IntBodyValue(body)
                      ELSE IntBodyValue(body)]
        ELSE [ok |-> FALSE, val |-> 0]

\* bytes.decode('ascii') succeeds only on bytes below 128.
IsAscii(b) == \A i \in 1..Len(b) : b[i] < 128

\* Largest index of character c in text p, 0 when p has none.
LastIndex(p, c) ==
    LET at == {i \in 1..Len(p) : p[i] = c}
    IN  IF at = {} THEN 0 ELSE CHOOSE i \in at : \A j \in at : j <= i

\* os.path.splitext(p)[1]: the text from the last dot of the last path
\* component, provided a character other than a dot precedes it there.
SplitExt(p) ==
    LET sep == LastIndex(p, 47)
        dot == LastIndex(p, 46)
    IN  IF dot > sep /\ \E i \in (sep + 1)..(dot - 1) : p[i] # 46
        THEN SubSeq(p, dot, Len(p))
        ELSE <<>>

----------------------------------------------------------------------------
\* ScreenCapture.__init__

\* Fault variant: the constructor does not keep the instance.
InitScope_Unset(osc) == NoScope

\* self._scope = oscilloscope
InitScope(osc) == osc

----------------------------------------------------------------------------
\* ScreenCapture.capture_screenshot: the decisions of the orchestrator.

\* if image_format not in self.SUPPORTED_FORMATS
IsSupported(fmt) == fmt \in SUPPORTED_FORMATS

\* Fault variant: the validation sits inside the try block, so its ValueError
\* is caught on line 95 and re-raised as RuntimeError.
UnsupportedFormat_Wrapped(fmt) ==
    Raised("RuntimeError", "Failed to capture screenshot: ", <<>>,
           Exc("ValueError", "Unsupported format: ", 0, 0))

\* raise ValueError(f"Unsupported format: {image_format}. Supported: ...")
UnsupportedFormat(fmt) == Raised("ValueError", "Unsupported format: ", fmt, NoExc)

\* Fault variant: the JPG alias is not normalised.
NormalizeFormat_Missing(fmt) == fmt

\* if image_format == "JPG": image_format = "JPEG"
NormalizeFormat(fmt) == IF fmt = JPG THEN JPEG ELSE fmt

\* f"HCSU DEV,FORMAT,{image_format}"
FormatCommand(fmt) == HCSU_DEV_FORMAT \o fmt

\* Fault variant: no settling delay follows the format command.
FormatSent_NoDelay(fmt) == <<WriteOp(FormatCommand(fmt), TRUE)>>

\* self._scope.write(f"HCSU DEV,FORMAT,{image_format}"); time.sleep(0.1):
\* what a format write that does not raise adds to the log.
FormatSent(fmt) == <<WriteOp(FormatCommand(fmt), TRUE), SleepOp(100)>>

\* Fault variant: the trigger is written a second time after the delay.
TriggerSent_Twice ==
    <<WriteOp(HCSU_PRINT, TRUE), SleepOp(200), WriteOp(HCSU_PRINT, TRUE)>>

\* self._scope.write("HCSU PRINT"); time.sleep(0.2): what a trigger write
\* that does not raise adds to the log.
TriggerSent == <<WriteOp(HCSU_PRINT, TRUE), SleepOp(200)>>

\* Fault variant: the data of Method 1 is never accepted.
AfterScdp_AlwaysFallback(ret, exc) == "fallback"

\* Fault variant: any data Method 1 returns is accepted, empty data too.
AfterScdp_EmptyOk(ret, exc) ==
    IF exc = NoExc /\ ret.type = "bytes" THEN "return" ELSE "fallback"

\* The inner try around Method 1: "return" when _capture_with_scdp returned
\* truthy data, else go on to Method 2; an exception is caught and logged.
AfterScdp(ret, exc) ==
    IF exc = NoExc /\ ret.type = "bytes" /\ ret.val # <<>> THEN "return" ELSE "fallback"

\* Fault variant: the truthiness test of line 86 is missing.
AfterHcsu_NoEmptyCheck(ret, exc) ==
    IF exc = NoExc /\ ret.type = "bytes" THEN "return" ELSE "raise"

\* The inner try around Method 2: "return" when _capture_with_hcsu returned
\* truthy data, else fall through to the raise on line 93.
AfterHcsu(ret, exc) ==
    IF exc = NoExc /\ ret.type = "bytes" /\ ret.val # <<>> THEN "return" ELSE "raise"

\* Fault variant: the last method's exception is raised instead.
BothMethodsFailed_Last(lastExc) == lastExc

\* raise RuntimeError("Failed to capture screenshot with available methods")
BothMethodsFailed(lastExc) ==
    Exc("RuntimeError", "Failed to capture screenshot with available methods", 0, 0)

\* Fault variant: the outer handler re-raises the exception as it is.
CaptureFailed_Reraise(e) == Raised(e.type, e.msg, <<>>, NoExc)

\* except Exception as e: raise RuntimeError(f"Failed to capture screenshot: {e}")
CaptureFailed(e) == Raised("RuntimeError", "Failed to capture screenshot: ", <<>>, e)

----------------------------------------------------------------------------
\* ScreenCapture.save_screenshot: the format it captures with.

\* Fault variant: '.JPG' is mapped to 'JPG'.
FormatFromFilename_JpgKept(fn) ==
    LET ext == Upper(SplitExt(fn)) IN
    IF ext = <<46>> \o PNG THEN PNG
    ELSE IF ext = <<46>> \o BMP THEN BMP
    ELSE IF ext = <<46>> \o JPG THEN JPG
    ELSE IF ext = <<46>> \o JPEG THEN JPEG
    ELSE PNG

\* ext = os.path.splitext(filename)[1].upper(); format_map.get(ext, 'PNG')
FormatFromFilename(fn) ==
    LET ext == Upper(SplitExt(fn)) IN
    IF ext = <<46>> \o PNG THEN PNG
    ELSE IF ext = <<46>> \o BMP THEN BMP
    ELSE IF ext = <<46>> \o JPG THEN JPEG
    ELSE IF ext = <<46>> \o JPEG THEN JPEG
    ELSE PNG

\* Fault variant: the format is always taken from the filename.
SaveFormat_Inferred(fn, given, fmt) == FormatFromFilename(fn)

\* if image_format is None: image_format = <inferred from filename>
SaveFormat(fn, given, fmt) == IF given THEN fmt ELSE FormatFromFilename(fn)

----------------------------------------------------------------------------
\* ScreenCapture._capture_with_scdp: the decoding steps.  Each yields the
\* exception the step raises, or NoExc.

\* Fault variant: the first header byte is not compared with '#'.
HeaderError_AnyMarker(hdr) ==
    IF hdr = <<>>
    THEN Exc("Exception", "Invalid response header", 0, 0)
    ELSE IF Len(hdr) < 2
    THEN Exc("IndexError", "index out of range", 0, 0)
    ELSE IF ~PyInt(<<hdr[2]>>).ok
    THEN Exc("ValueError", "invalid literal for int() with base 10", 0, 0)
    ELSE IF PyInt(<<hdr[2]>>).val = 0
    THEN Exc("Exception", "Invalid length format", 0, 0)
    ELSE NoExc

\* Fault variant: a digit count of zero is let through.
HeaderError_ZeroCount(hdr) ==
    IF hdr = <<>> \/ SubSeq(hdr, 1, 1) # HASH
    THEN Exc("Exception", "Invalid response header", 0, 0)
    ELSE IF Len(hdr) < 2
    THEN Exc("IndexError", "index out of range", 0, 0)
    ELSE IF ~PyInt(<<hdr[2]>>).ok
    THEN Exc("ValueError", "invalid literal for int() with base 10", 0, 0)
    ELSE NoExc

\* if not header or header[0:1] != b'#': raise Exception("Invalid response header")
\* num_digits = int(chr(header[1])); if num_digits == 0: raise ...
HeaderError(hdr) ==
    IF hdr = <<>> \/ SubSeq(hdr, 1, 1) # HASH
    THEN Exc("Exception", "Invalid response header", 0, 0)
    ELSE IF Len(hdr) < 2
    THEN Exc("IndexError", "index out of range", 0, 0)
    ELSE IF ~PyInt(<<hdr[2]>>).ok
    THEN Exc("ValueError", "invalid literal for int() with base 10", 0, 0)
    ELSE IF PyInt(<<hdr[2]>>).val = 0
    THEN Exc("Exception", "Invalid length format", 0, 0)
    ELSE NoExc

\* Fault variant: the digit count is taken one too large.
NumDigits_PlusOne(hdr) == PyInt(<<hdr[2]>>).val + 1

\* int(chr(header[1]))
NumDigits(hdr) == PyInt(<<hdr[2]>>).val

\* data_length = int(length_bytes.decode('ascii'))
LengthError(lenb) ==
    IF ~IsAscii(lenb)
    THEN Exc("UnicodeDecodeError", "'ascii' codec can't decode byte", 0, 0)
    ELSE IF ~PyInt(lenb).ok
    THEN Exc("ValueError", "invalid literal for int() with base 10", 0, 0)
    ELSE NoExc

DataLength(lenb) == PyInt(lenb).val

\* Fault variant: only a short payload is refused.
DataError_ShortOnly(data, expected) ==
    IF Len(data) < expected
    THEN Exc("Exception", "Data length mismatch: expected {}, got {}",
             expected, Len(data))
    ELSE NoExc

\* if len(image_data) != data_length: raise Exception(f"Data length mismatch: ...")
DataError(data, expected) ==
    IF Len(data) # expected
    THEN Exc("Exception", "Data length mismatch: expected {}, got {}",
             expected, Len(data))
    ELSE NoExc

\* Fault variant: the whole block is returned, framing included.
ScdpReturn_Framed(data) == Bytes(header \o length_bytes \o data)

\* return image_data
ScdpReturn(data) == Bytes(data)

----------------------------------------------------------------------------
\* ScreenCapture._capture_with_hcsu: what becomes of the query's response.

\* Fault variant: the type test of line 159 is missing.
HcsuError_Missing(resp) == NoExc

\* if isinstance(response, str): raise Exception(f"Unexpected string response: ...")
HcsuError(resp) ==
    IF resp.type = "str"
    THEN Exc("Exception", "Unexpected string response: ", 0, 0)
    ELSE NoExc

\* Fault variant: a response that starts with '#' loses its two header bytes.
HcsuReturn_Unframed(resp) ==
    IF HcsuError(resp) # NoExc THEN NoValue
    ELSE IF resp.val # <<>> /\ resp.val[1] = 35 THEN Bytes(Drop(resp.val, 2))
    ELSE Bytes(resp.val)

\* return response.encode() if isinstance(response, str) else response
\* (str.encode() of ASCII text yields the same codes, as bytes)
HcsuReturn(resp) ==
    IF HcsuError(resp) # NoExc THEN NoValue
    ELSE IF resp.type = "str" THEN Bytes(resp.val) ELSE resp

----------------------------------------------------------------------------
\* Initial state: a ScreenCapture has been constructed, no call is running.

Init ==
    /\ oscilloscope \in Oscilloscopes
    /\ _scope = InitScope(oscilloscope)
    /\ pc = "idle"
    /\ token = <<>>
    /\ calls = 0
    /\ image_format = <<>>
    /\ header = <<>>
    /\ num_digits = 0
    /\ length_bytes = <<>>
    /\ data_length = 0
    /\ image_data = <<>>
    /\ excA = NoExc
    /\ retA = NoValue
    /\ excB = NoExc
    /\ retB = NoValue
    /\ response = NoValue
    /\ result = NoResult
    /\ ops = <<>>
    /\ unread = 0
    /\ hardcopy_format \in {PNG, BMP, JPEG}
    /\ save = NoSave
    /\ file = NoFile
    /\ other = [pc |-> "idle", at |-> 0]
    /\ prev = NoPrev

\* The locals of a call before anything has been assigned to them.
FreshLocals ==
    /\ header' = <<>>
    /\ num_digits' = 0
    /\ length_bytes' = <<>>
    /\ data_length' = 0
    /\ image_data' = <<>>
    /\ excA' = NoExc
    /\ retA' = NoValue
    /\ excB' = NoExc
    /\ retB' = NoValue
    /\ response' = NoValue
    /\ result' = NoResult
    /\ ops' = <<>>

----------------------------------------------------------------------------
\* capture_screenshot(image_format) is entered with a token of the caller.
Call(tok) ==
    /\ pc = "idle"
    /\ calls < MaxCalls
    /\ pc' = "called"
    /\ token' = tok
    /\ image_format' = tok
    /\ FreshLocals
    /\ UNCHANGED <<save, file, other, prev, oscilloscope, _scope, calls, unread, hardcopy_format>>

\* Fault variant: the engine remembers that it has set a format and sends
\* the format command on its first call only.
SetFormat_Once ==
    /\ pc = "called"
    /\ LET up == Upper(image_format) IN
       IF ~IsSupported(up)
       THEN /\ image_format' = up
            /\ result' = UnsupportedFormat(up)
            /\ pc' = "done"
            /\ UNCHANGED <<ops, hardcopy_format>>
       ELSE LET fmt == NormalizeFormat(up) IN
            /\ image_format' = fmt
            /\ IF calls > 0
               THEN pc' = "scdp" /\ UNCHANGED <<ops, hardcopy_format, result>>
               ELSE \/ /\ ops' = ops \o FormatSent(fmt)
                       /\ hardcopy_format' = InstrumentFormat(FormatCommand(fmt), hardcopy_format)
                       /\ pc' = "scdp"
                       /\ UNCHANGED result
                    \/ /\ ops' = Append(ops, WriteOp(FormatCommand(fmt), FALSE))
                       /\ result' = CaptureFailed(TransportError)
                       /\ pc' = "done"
                       /\ UNCHANGED hardcopy_format
    /\ UNCHANGED <<save, file, other, prev, oscilloscope, _scope, token, calls, header, num_digits,
                   length_bytes, data_length, image_data, excA, retA, excB, retB,
                   response, unread>>

\* Fault variant: an exception of the format write is swallowed and the call
\* goes on to Method 1.
SetFormat_Swallow ==
    /\ pc = "called"
    /\ LET up == Upper(image_format) IN
       IF ~IsSupported(up)
       THEN /\ image_format' = up
            /\ result' = UnsupportedFormat(up)
            /\ pc' = "done"
            /\ UNCHANGED <<ops, hardcopy_format>>
       ELSE LET fmt == NormalizeFormat(up) IN
            /\ image_format' = fmt
            /\ pc' = "scdp"
            /\ UNCHANGED result
            /\ \/ /\ ops' = ops \o FormatSent(fmt)
                  /\ hardcopy_format' = InstrumentFormat(FormatCommand(fmt), hardcopy_format)
               \/ /\ ops' = Append(ops, WriteOp(FormatCommand(fmt), FALSE))
                  /\ UNCHANGED hardcopy_format
    /\ UNCHANGED <<save, file, other, prev, oscilloscope, _scope, token, calls, header, num_digits,
                   length_bytes, data_length, image_data, excA, retA, excB, retB,
                   response, unread>>

\* Lines 51-69: validation, normalisation, the format write and the sleep.
SetFormat ==
    /\ pc = "called"
    /\ LET up == Upper(image_format) IN
       IF ~IsSupported(up)
       THEN /\ image_format' = up
            /\ result' = UnsupportedFormat(up)
            /\ pc' = "done"
            /\ UNCHANGED <<ops, hardcopy_format>>
       ELSE LET fmt == NormalizeFormat(up) IN
            /\ image_format' = fmt
            /\ \/ /\ ops' = ops \o FormatSent(fmt)
                  /\ hardcopy_format' = InstrumentFormat(FormatCommand(fmt), hardcopy_format)
                  /\ pc' = "scdp"
                  /\ UNCHANGED result
               \/ /\ ops' = Append(ops, WriteOp(FormatCommand(fmt), FALSE))
                  /\ result' = CaptureFailed(TransportError)
                  /\ pc' = "done"
                  /\ UNCHANGED hardcopy_format
    /\ UNCHANGED <<save, file, other, prev, oscilloscope, _scope, token, calls, header, num_digits,
                   length_bytes, data_length, image_data, excA, retA, excB, retB,
                   response, unread>>

\* Fault variant: an exception of Method 1 is not caught by an inner handler
\* and reaches the outer one.
ScdpDone_Propagate(ret, exc) ==
    /\ retA' = ret
    /\ excA' = exc
    /\ IF exc # NoExc
       THEN result' = Raised("RuntimeError", "Failed to capture screenshot: ", <<>>, exc)
            /\ pc' = "done"
       ELSE IF ret.val # <<>>
       THEN result' = Returned(ret.val) /\ pc' = "done"
       ELSE result' = result /\ pc' = "hcsu"

\* Fault variant: Method 1 is attempted again for as long as it raises.
ScdpDone_Again(ret, exc) ==
    /\ retA' = ret
    /\ excA' = exc
    /\ IF AfterScdp(ret, exc) = "return"
       THEN result' = Returned(ret.val) /\ pc' = "done"
       ELSE /\ result' = result
            /\ pc' = IF exc # NoExc THEN "scdp" ELSE "hcsu"

\* Lines 73-80: how the call goes on once _capture_with_scdp has returned ret
\* or raised exc.
ScdpDone(ret, exc) ==
    /\ retA' = ret
    /\ excA' = exc
    /\ IF AfterScdp(ret, exc) = "return"
       THEN result' = Returned(ret.val) /\ pc' = "done"
       ELSE result' = result /\ pc' = "hcsu"

\* Fault variant: when Method 2 fails, Method 1 is attempted again.
HcsuDone_Retry(ret, exc) ==
    /\ retB' = ret
    /\ excB' = exc
    /\ IF AfterHcsu(ret, exc) = "return"
       THEN result' = Returned(ret.val) /\ pc' = "done"
       ELSE result' = result /\ pc' = "scdp"

\* Lines 83-97: how the call ends once _capture_with_hcsu has returned ret or
\* raised exc.
HcsuDone(ret, exc) ==
    /\ retB' = ret
    /\ excB' = exc
    /\ pc' = "done"
    /\ result' = IF AfterHcsu(ret, exc) = "return"
                 THEN Returned(ret.val)
                 ELSE CaptureFailed(BothMethodsFailed(exc))

\* Line 109: self._scope.write("SCDP"); the instrument sends its answer.
ScdpWrite ==
    /\ pc = "scdp"
    /\ \/ /\ ops' = Append(ops, WriteOp(SCDP, FALSE))
          /\ ScdpDone(NoValue, TransportError)
          /\ UNCHANGED <<unread, hardcopy_format>>
       \/ /\ ops' = Append(ops, WriteOp(SCDP, TRUE))
          /\ \E sent \in 0..(MaxResp - unread) : unread' = unread + sent
          /\ hardcopy_format' = InstrumentFormat(SCDP, hardcopy_format)
          /\ pc' = "header"
          /\ UNCHANGED <<excA, retA, result>>
    /\ UNCHANGED <<save, file, other, prev, oscilloscope, _scope, token, calls, image_format, header,
                   num_digits, length_bytes, data_length, image_data,
                   excB, retB, response>>

\* Lines 117-124: read_raw(2) and the checks of the header.
ReadHeader ==
    /\ pc = "header"
    /\ \/ /\ ops' = Append(ops, ReadOp(2, FALSE))
          /\ ScdpDone(NoValue, TransportError)
          /\ UNCHANGED <<unread, header, num_digits>>
       \/ \E got \in Answers(ReadValues(2), prev.header) :
            /\ ops' = Append(ops, ReadOp(2, TRUE))
            /\ unread' = unread - Len(got)
            /\ header' = got
            /\ IF HeaderError(got) # NoExc
               THEN ScdpDone(NoValue, HeaderError(got)) /\ UNCHANGED num_digits
               ELSE /\ num_digits' = NumDigits(got)
                    /\ pc' = "length"
                    /\ UNCHANGED <<excA, retA, result>>
    /\ UNCHANGED <<save, file, other, prev, oscilloscope, _scope, token, calls, image_format,
                   length_bytes, data_length, image_data, excB, retB, response,
                   hardcopy_format>>

\* Lines 127-128: read_raw(num_digits) and the parse of the length.
ReadLength ==
    /\ pc = "length"
    /\ \/ /\ ops' = Append(ops, ReadOp(num_digits, FALSE))
          /\ ScdpDone(NoValue, TransportError)
          /\ UNCHANGED <<unread, length_bytes, data_length>>
       \/ \E got \in Answers(ReadValues(num_digits), prev.length_bytes) :
            /\ ops' = Append(ops, ReadOp(num_digits, TRUE))
            /\ unread' = unread - Len(got)
            /\ length_bytes' = got
            /\ IF LengthError(got) # NoExc
               THEN ScdpDone(NoValue, LengthError(got)) /\ UNCHANGED data_length
               ELSE /\ data_length' = DataLength(got)
                    /\ pc' = "data"
                    /\ UNCHANGED <<excA, retA, result>>
    /\ UNCHANGED <<save, file, other, prev, oscilloscope, _scope, token, calls, image_format, header,
                   num_digits, image_data, excB, retB, response, hardcopy_format>>

\* Lines 131-136: read_raw(data_length), the length check and the return.
ReadData ==
    /\ pc = "data"
    /\ \/ /\ ops' = Append(ops, ReadOp(data_length, FALSE))
          /\ ScdpDone(NoValue, TransportError)
          /\ UNCHANGED <<unread, image_data>>
       \/ \E got \in Answers(ReadValues(data_length), prev.image_data) :
            /\ ops' = Append(ops, ReadOp(data_length, TRUE))
            /\ unread' = unread - Len(got)
            /\ image_data' = got
            /\ IF DataError(got, data_length) # NoExc
               THEN ScdpDone(NoValue, DataError(got, data_length))
               ELSE ScdpDone(ScdpReturn(got), NoExc)
    /\ UNCHANGED <<save, file, other, prev, oscilloscope, _scope, token, calls, image_format, header,
                   num_digits, length_bytes, data_length, excB, retB, response,
                   hardcopy_format>>

\* Fault variant: Method 2 first reads off whatever the transport still holds.
HcsuWrite_Drain ==
    /\ pc = "hcsu"
    /\ unread' = 0
    /\ \/ /\ ops' = ops \o <<ReadOp(unread, TRUE), WriteOp(HCSU_PRINT, FALSE)>>
          /\ HcsuDone(NoValue, TransportError)
          /\ UNCHANGED hardcopy_format
       \/ /\ ops' = ops \o <<ReadOp(unread, TRUE)>> \o TriggerSent
          /\ hardcopy_format' = InstrumentFormat(HCSU_PRINT, hardcopy_format)
          /\ pc' = "query"
          /\ UNCHANGED <<excB, retB, result>>
    /\ UNCHANGED <<save, file, other, prev, oscilloscope, _scope, token, calls, image_format, header,
                   num_digits, length_bytes, data_length, image_data, excA, retA,
                   response>>

\* Lines 148-152: self._scope.write("HCSU PRINT") and the sleep.
HcsuWrite ==
    /\ pc = "hcsu"
    /\ \/ /\ ops' = Append(ops, WriteOp(HCSU_PRINT, FALSE))
          /\ HcsuDone(NoValue, TransportError)
          /\ UNCHANGED hardcopy_format
       \/ /\ ops' = ops \o TriggerSent
          /\ hardcopy_format' = InstrumentFormat(HCSU_PRINT, hardcopy_format)
          /\ pc' = "query"
          /\ UNCHANGED <<excB, retB, result>>
    /\ UNCHANGED <<save, file, other, prev, oscilloscope, _scope, token, calls, image_format, header,
                   num_digits, length_bytes, data_length, image_data, excA, retA,
                   response, unread>>

\* Lines 155-163: self._scope.query("HCSU?") and the check of its type.  The
\* query reads its response off the same stream and may take unread bytes.
HcsuQuery ==
    /\ pc = "query"
    /\ \/ /\ ops' = Append(ops, QueryOp(HCSU_QUERY, FALSE))
          /\ HcsuDone(NoValue, TransportError)
          /\ UNCHANGED <<response, unread>>
       \/ \E resp \in {Bytes(b) : b \in QueryBytes} \cup {Str(t) : t \in QueryTexts} :
            /\ ops' = Append(ops, QueryOp(HCSU_QUERY, TRUE))
            /\ response' = resp
            /\ \E taken \in 0..unread : unread' = unread - taken
            /\ HcsuDone(HcsuReturn(resp), HcsuError(resp))
    /\ hardcopy_format' = InstrumentFormat(HCSU_QUERY, hardcopy_format)
    /\ UNCHANGED <<save, file, other, prev, oscilloscope, _scope, token, calls, image_format, header,
                   num_digits, length_bytes, data_length, image_data, excA, retA>>

\* Fault variant: the file is opened for writing before the capture.
SaveCall_OpenFirst(fn, given, fmt) ==
    /\ pc = "idle"
    /\ calls < MaxCalls
    /\ pc' = "called"
    /\ \E f \in FilesBefore : save' = SaveFrame(fn, given, fmt, f)
    /\ file' = FileWith(<<>>)
    /\ token' = SaveFormat(fn, given, fmt)
    /\ image_format' = SaveFormat(fn, given, fmt)
    /\ FreshLocals
    /\ UNCHANGED <<other, prev, oscilloscope, _scope, calls, unread, hardcopy_format>>

\* save_screenshot(filename, image_format) is entered: lines 177-190 choose
\* the format and enter capture_screenshot with it.
SaveCall(fn, given, fmt) ==
    /\ pc = "idle"
    /\ calls < MaxCalls
    /\ pc' = "called"
    /\ \E f \in FilesBefore : save' = SaveFrame(fn, given, fmt, f) /\ file' = f
    /\ token' = SaveFormat(fn, given, fmt)
    /\ image_format' = SaveFormat(fn, given, fmt)
    /\ FreshLocals
    /\ UNCHANGED <<other, prev, oscilloscope, _scope, calls, unread, hardcopy_format>>

\* Lines 193-194: capture_screenshot has returned image_data;
\* with open(filename, 'wb') as f: f.write(image_data).  open may raise (the
\* file stays as it was), the write may raise (open has truncated the file)
\* or the data is written.
SaveWrite ==
    /\ pc = "done"
    /\ save.active
    /\ result.kind = "return"
    /\ pc' = "saved"
    /\ \/ /\ save' = [save EXCEPT !.outcome = "OSError"]
          /\ UNCHANGED file
       \/ /\ save' = [save EXCEPT !.outcome = "OSError"]
          /\ file' = FileWith(<<>>)
       \/ /\ save' = [save EXCEPT !.outcome = "written"]
          /\ file' = FileWith(result.value)
    /\ UNCHANGED <<other, prev, oscilloscope, _scope, token, calls, image_format,
                   header, num_digits, length_bytes, data_length, image_data,
                   excA, retA, excB, retB, response, result, ops, unread,
                   hardcopy_format>>

\* The call has returned or raised; the caller has taken the outcome.
Return ==
    /\ \/ pc = "done" /\ ~(save.active /\ result.kind = "return")
       \/ pc = "saved"
    /\ pc' = "idle"
    /\ calls' = calls + 1
    /\ token' = <<>>
    /\ image_format' = <<>>
    /\ FreshLocals
    /\ save' = NoSave
    /\ file' = NoFile
    /\ other' = [other EXCEPT !.at = 0]
    /\ UNCHANGED <<prev, oscilloscope, _scope, unread, hardcopy_format>>

Next ==
    \/ \E tok \in Tokens : Call(tok)
    \/ SetFormat
    \/ ScdpWrite
    \/ ReadHeader
    \/ ReadLength
    \/ ReadData
    \/ HcsuWrite
    \/ HcsuQuery
    \/ Return

Spec == Init /\ [][Next]_vars

\* Format tokens of the calls that are repeated: "jpg" and "TIFF".
ReplayTokens == { <<106, 112, 103>>, <<84, 73, 70, 70>> }

\* The steps of a running call.  Every transport operation returns or
\* raises, so a call that can take a step does take it.
CallStep ==
    \/ SetFormat
    \/ ScdpWrite
    \/ ReadHeader
    \/ ReadLength
    \/ ReadData
    \/ HcsuWrite
    \/ HcsuQuery

SpecLive == Init /\ [][Next]_vars /\ WF_vars(CallStep)

\* What the running call was given and did, as it stands when it ends.
CallRecord ==
    [kept |-> TRUE, token |-> token, ops |-> ops, header |-> header,
     length_bytes |-> length_bytes, image_data |-> image_data,
     response |-> response, result |-> result]

\* The first capture_screenshot call has returned or raised, and the caller
\* keeps what it was given and what it got.
ReturnKept ==
    /\ pc = "done"
    /\ ~save.active
    /\ ~prev.kept
    /\ prev' = CallRecord
    /\ pc' = "idle"
    /\ calls' = calls + 1
    /\ token' = <<>>
    /\ image_format' = <<>>
    /\ FreshLocals
    /\ other' = [other EXCEPT !.at = 0]
    /\ UNCHANGED <<save, file, oscilloscope, _scope, unread, hardcopy_format>>

\* The k-th read_raw of the running call was issued and returned bytes.
ReadGave(k) ==
    LET reads == SelectSeq(ops, LAMBDA o : o.op = "read_raw")
    IN  Len(reads) >= k /\ reads[k].ok

\* The running call has the format of the kept call, and the transport has
\* answered each of its operations as it answered the kept call's operation
\* of the same position: raised where it raised, returned what it returned.
SameResponses ==
    /\ token = prev.token
    /\ \A i \in 1..Min(Len(ops), Len(prev.ops)) : ops[i].ok = prev.ops[i].ok
    /\ ReadGave(1) => header = prev.header
    /\ ReadGave(2) => length_bytes = prev.length_bytes
    /\ ReadGave(3) => image_data = prev.image_data
    /\ response # NoValue => response = prev.response

\* Once a call is kept, the instrument repeats itself.
Again == (prev.kept /\ pc # "idle") => SameResponses

\* A first call with any format and any responses, then calls with the same
\* format that get the same responses.
NextReplay ==
    \/ \E tok \in ReplayTokens : Call(tok) /\ Again'
    \/ SetFormat /\ Again'
    \/ ScdpWrite /\ Again'
    \/ ReadHeader /\ Again'
    \/ ReadLength /\ Again'
    \/ ReadData /\ Again'
    \/ HcsuWrite /\ Again'
    \/ HcsuQuery /\ Again'
    \/ ReturnKept
    \/ Return /\ prev.kept

SpecReplay == Init /\ [][NextReplay]_vars

\* A second caller (another thread) calls capture_screenshot("PNG") on the
\* same ScreenCapture.  The code takes no lock, so its steps run at any time.
\* Its call is followed up to its header read; other.at notes how many
\* entries the first caller's log had when the second caller last used the
\* transport.
OtherCall ==
    /\ other.pc = "idle"
    /\ other' = [other EXCEPT !.pc = "called"]
    /\ UNCHANGED <<save, file, prev, oscilloscope, _scope, pc, token, calls,
                   image_format, header, num_digits, length_bytes, data_length,
                   image_data, excA, retA, excB, retB, response, result, ops,
                   unread, hardcopy_format>>

\* Line 65 in the second caller: self._scope.write("HCSU DEV,FORMAT,PNG").
OtherSetFormat ==
    /\ other.pc = "called"
    /\ \/ /\ other' = [pc |-> "scdp", at |-> Len(ops)]
          /\ hardcopy_format' = InstrumentFormat(FormatCommand(PNG), hardcopy_format)
       \/ /\ other' = [pc |-> "done", at |-> Len(ops)]
          /\ UNCHANGED hardcopy_format
    /\ UNCHANGED <<save, file, prev, oscilloscope, _scope, pc, token, calls,
                   image_format, header, num_digits, length_bytes, data_length,
                   image_data, excA, retA, excB, retB, response, result, ops,
                   unread>>

\* Line 109 in the second caller: self._scope.write("SCDP").
OtherScdpWrite ==
    /\ other.pc = "scdp"
    /\ \/ /\ other' = [pc |-> "header", at |-> Len(ops)]
          /\ \E sent \in 0..(MaxResp - unread) : unread' = unread + sent
       \/ /\ other' = [pc |-> "done", at |-> Len(ops)]
          /\ UNCHANGED unread
    /\ UNCHANGED <<save, file, prev, oscilloscope, _scope, pc, token, calls,
                   image_format, header, num_digits, length_bytes, data_length,
                   image_data, excA, retA, excB, retB, response, result, ops,
                   hardcopy_format>>

\* Line 117 in the second caller: read_raw(2) takes bytes off the stream.
OtherReadHeader ==
    /\ other.pc = "header"
    /\ other' = [pc |-> "done", at |-> Len(ops)]
    /\ \E k \in ReadLens(2) : unread' = unread - k
    /\ UNCHANGED <<save, file, prev, oscilloscope, _scope, pc, token, calls,
                   image_format, header, num_digits, length_bytes, data_length,
                   image_data, excA, retA, excB, retB, response, result, ops,
                   hardcopy_format>>

\* Two callers use the same ScreenCapture at the same time: the first one
\* makes one call with "png", followed to the end of Method 1, the second
\* one a call with "PNG".
NextConc ==
    \/ calls = 0 /\ Call(<<112, 110, 103>>)
    \/ SetFormat
    \/ ScdpWrite
    \/ ReadHeader
    \/ ReadLength
    \/ ReadData
    \/ Return
    \/ OtherCall
    \/ OtherSetFormat
    \/ OtherScdpWrite
    \/ OtherReadHeader

SpecConc == Init /\ [][NextConc]_vars

\* The calls are made through save_screenshot.
NextSave ==
    \/ \E a \in SaveArgs : SaveCall(a.filename, a.given, a.image_format)
    \/ SetFormat
    \/ ScdpWrite
    \/ ReadHeader
    \/ ReadLength
    \/ ReadData
    \/ HcsuWrite
    \/ HcsuQuery
    \/ SaveWrite
    \/ Return

SpecSave == Init /\ [][NextSave]_vars

\* save_screenshot is called without a format, with every path of Paths, and
\* followed up to the format command of the capture.
NextInfer ==
    \/ \E fn \in Paths : SaveCall(fn, FALSE, <<>>)
    \/ SetFormat

SpecInfer == Init /\ [][NextInfer]_vars

----------------------------------------------------------------------------
\* Vocabulary of the properties.

\* tok spells name, letter case aside (name is in upper case).
CaseFolds(tok, name) ==
    /\ Len(tok) = Len(name)
    /\ \A i \in 1..Len(name) : tok[i] \in {name[i], name[i] + 32}

TokenSupported(tok) == \E name \in {PNG, BMP, JPEG, JPG} : CaseFolds(tok, name)

\* The canonical format a supported token stands for.
Canonical(tok) ==
    IF CaseFolds(tok, PNG) THEN PNG
    ELSE IF CaseFolds(tok, BMP) THEN BMP
    ELSE JPEG

\* A call is running or has just ended, and its validation is over.
Validated == pc \notin {"idle", "called"}

\* Positions in ops of the operations of one kind that carry cmd.
Issued(op, cmd) == {i \in DOMAIN ops : ops[i].op = op /\ ops[i].cmd = cmd}

\* Positions in ops of the writes that set the hardcopy format.
FormatWrites ==
    {i \in DOMAIN ops : ops[i].op = "write" /\ IsPrefix(HCSU_DEV_FORMAT, ops[i].cmd)}

\* The query of Method B has handed back non-empty binary data.
HcsuGaveData == response.type = "bytes" /\ response.val # <<>>

----------------------------------------------------------------------------
\* C1: whenever Method A raises, whatever the error, the call does not end
\* with that error: it goes on to Method B, writing HCSU PRINT and, if that
\* write succeeds, querying HCSU? after it; and if that query hands back
\* non-empty bytes, the call returns exactly those bytes.
C1_Fallback ==
    excA # NoExc =>
        /\ pc \in {"hcsu", "query", "done"}
        /\ result.cause # excA
        /\ pc \in {"query", "done"} => Issued("write", HCSU_PRINT) # {}
        /\ pc = "done" =>
             \A i \in Issued("write", HCSU_PRINT) :
                 ops[i].ok => \E j \in Issued("query", HCSU_QUERY) : j > i
        /\ (pc = "done" /\ HcsuGaveData) =>
             (result.kind = "return" /\ result.value = response.val)

\* Method A failed on the framing and Method B's data was returned.
C1_Witness ==
    /\ pc = "done"
    /\ excA.msg = "Data length mismatch: expected {}, got {}"
    /\ HcsuGaveData
    /\ result.kind = "return"

\* C2: a value the call returns is a non-empty byte sequence, and when it
\* comes from Method A it has exactly the declared length; when Method B
\* fails or hands back an empty payload the call raises the capture failure.
C2_TerminalFailure ==
    pc = "done" =>
        /\ result.kind \in {"return", "ValueError", "RuntimeError"}
        /\ result.kind = "return" => result.value # <<>>
        /\ (result.kind = "return" /\ retB = NoValue) =>
             (Len(result.value) = data_length /\ excA = NoExc)
        /\ (excB # NoExc \/ response = Bytes(<<>>)) =>
             (result.kind = "RuntimeError" /\ result.value = <<>>)

\* Method A failed, Method B handed back an empty payload, the call raised.
C2_Witness ==
    /\ pc = "done"
    /\ excA # NoExc
    /\ response = Bytes(<<>>)
    /\ result.kind = "RuntimeError"

\* C3: when Method A yields a non-empty payload the call ends at once with
\* that payload: the read of the payload is its last transport operation and
\* neither HCSU PRINT nor HCSU? is sent.
C3_NoFallbackOnSuccess ==
    (retA.type = "bytes" /\ retA.val # <<>>) =>
        /\ pc = "done"
        /\ result.kind = "return"
        /\ result.value = retA.val
        /\ ops[Len(ops)].op = "read_raw"
        /\ Issued("write", HCSU_PRINT) = {}
        /\ Issued("query", HCSU_QUERY) = {}

\* Method A decoded a block with a payload.
C3_Witness ==
    /\ pc = "done"
    /\ retA.type = "bytes"
    /\ retA.val # <<>>
    /\ Len(retA.val) = data_length
    /\ result = Returned(retA.val)

\* C4: a token that does not spell PNG, BMP, JPEG or JPG in some letter case
\* makes the call end with the unsupported-format error, with no transport
\* operation issued and without turning it into the capture failure.
C4_UnsupportedFormat ==
    (Validated /\ ~TokenSupported(token)) =>
        /\ pc = "done"
        /\ result.kind = "ValueError"
        /\ ops = <<>>

\* The call with "tiff" has ended.
C4_Witness ==
    /\ pc = "done"
    /\ token = <<116, 105, 102, 102>>
    /\ result.kind = "ValueError"

\* C5: for a supported token in any letter case, the first transport
\* operation writes HCSU DEV,FORMAT, followed by PNG, BMP or JPEG, JPEG for
\* both jpeg and jpg; no write ever carries another format.
C5_Normalization ==
    /\ (Validated /\ TokenSupported(token)) =>
          /\ ops # <<>>
          /\ ops[1].op = "write"
          /\ ops[1].cmd = HCSU_DEV_FORMAT \o Canonical(token)
    /\ \A i \in FormatWrites :
          Drop(ops[i].cmd, Len(HCSU_DEV_FORMAT)) \in {PNG, BMP, JPEG}

\* The call with "jpg" has written its format command.
C5_Witness ==
    /\ pc = "scdp"
    /\ token = <<106, 112, 103>>
    /\ ops[1].cmd = HCSU_DEV_FORMAT \o JPEG

\* C6: when the HCSU? query hands back text, Method B fails with the
\* unexpected-string-response error and the call raises; no call returns
\* bytes when the query's response was text.
C6_TextResponse ==
    response.type = "str" =>
        /\ pc = "done"
        /\ excB.msg = "Unexpected string response: "
        /\ retB = NoValue
        /\ result.kind = "RuntimeError"

\* The query answered with the text "#112".
C6_Witness ==
    /\ pc = "done"
    /\ response = Str(<<35, 49, 49, 50>>)
    /\ result.kind = "RuntimeError"

\* C7: a call that passed validation and does not return raises RuntimeError
\* with the one capture-failure message, whatever failed; once Method A has
\* been attempted the error is the same value whichever method failed and
\* however it failed.
C7_SingleFailureKind ==
    (pc = "done" /\ ops # <<>> /\ result.kind # "return") =>
        /\ result.kind = "RuntimeError"
        /\ result.msg = "Failed to capture screenshot: "
        /\ Issued("write", SCDP) # {} =>
             result = [kind |-> "RuntimeError", value |-> <<>>,
                       msg |-> "Failed to capture screenshot: ", arg |-> <<>>,
                       cause |-> [type |-> "RuntimeError",
                                  msg |-> "Failed to capture screenshot with available methods",
                                  expected |-> 0, got |-> 0]]

\* The format write itself raised.
C7_Witness ==
    /\ pc = "done"
    /\ Len(ops) = 1
    /\ ~ops[1].ok
    /\ result.kind = "RuntimeError"

\* C8: when Method A and Method B have both been tried without a usable
\* payload, the error the caller gets says that the available methods failed;
\* it is not the error of the method tried last.
C8_NeitherMethod ==
    (pc = "done" /\ Issued("write", HCSU_PRINT) # {} /\ result.kind # "return") =>
        /\ result.cause.type = "RuntimeError"
        /\ result.cause.msg = "Failed to capture screenshot with available methods"
        /\ excB # NoExc => result.cause # excB

\* Method A failed on the header, Method B on the type of its response.
C8_Witness ==
    /\ pc = "done"
    /\ excA.msg = "Invalid response header"
    /\ excB.msg = "Unexpected string response: "
    /\ result.kind = "RuntimeError"

\* C9: in a call that passed validation the format command is written once,
\* as the first operation, and the instrument's format setting stays what
\* that write made it until the call has ended, on success and on failure.
C9_FormatLeftAsSet ==
    (Validated /\ result.kind # "ValueError") =>
        /\ FormatWrites = {1}
        /\ ops[1].ok => hardcopy_format = image_format
        /\ ops[1].ok => hardcopy_format = Drop(ops[1].cmd, Len(HCSU_DEV_FORMAT))

\* Both methods were tried and failed; the format is the one of the call.
C9_Witness ==
    /\ pc = "done"
    /\ result.kind = "RuntimeError"
    /\ Issued("query", HCSU_QUERY) # {}
    /\ hardcopy_format = BMP
    /\ token = BMP

\* C10 as stated: between two calls the engine holds no reference to the
\* instrument session.
C10_NoReferenceBetweenCalls ==
    (pc = "idle" /\ calls >= 1) => _scope = NoScope

\* C10, as the code has it: the engine keeps the instance it was constructed
\* with, in every state, between calls too; no call replaces or clears it.
C10_ReferenceKept ==
    /\ _scope = oscilloscope
    /\ _scope \in Oscilloscopes

\* A call has ended and the engine still holds the instance.
C10_Witness ==
    /\ pc = "idle"
    /\ calls >= 1
    /\ _scope = "scope"

----------------------------------------------------------------------------
\* Vocabulary of the framing properties.

\* The read_raw operations of the running call, in order: the header read,
\* the length read, the payload read.
ReadOps == SelectSeq(ops, LAMBDA o : o.op = "read_raw")

\* The k-th read_raw of the call was issued and returned bytes.
ReadReturned(k) == Len(ReadOps) >= k /\ ReadOps[k].ok

AllDigits(s) == \A i \in 1..Len(s) : s[i] \in 48..57

\* The decimal value of a sequence of ASCII digits.
RECURSIVE DigitsValue(_)
DigitsValue(s) ==
    IF s = <<>> THEN 0
    ELSE 10 * DigitsValue(SubSeq(s, 1, Len(s) - 1)) + (s[Len(s)] - 48)

\* What read_raw delivered is a well-formed block: '#', a digit N in 1..9,
\* N digits that spell L, then L payload bytes.
WellFormedBlock ==
    /\ ReadReturned(3)
    /\ Len(header) = 2 /\ header[1] = 35 /\ header[2] \in 49..57
    /\ Len(length_bytes) = header[2] - 48
    /\ AllDigits(length_bytes)
    /\ Len(image_data) = DigitsValue(length_bytes)

\* C15: every command text the call sends is "HCSU DEV,FORMAT,PNG",
\* "HCSU DEV,FORMAT,BMP", "HCSU DEV,FORMAT,JPEG", "SCDP", "HCSU PRINT" or
\* "HCSU?"; "HCSU?" is the only one sent through query and it is never sent
\* through write, the five others are sent through write only.
C15_CommandSet ==
    LET prefix == <<72, 67, 83, 85, 32, 68, 69, 86, 44, 70, 79, 82, 77, 65, 84, 44>>
        written == { prefix \o <<80, 78, 71>>,
                     prefix \o <<66, 77, 80>>,
                     prefix \o <<74, 80, 69, 71>>,
                     <<83, 67, 68, 80>>,
                     <<72, 67, 83, 85, 32, 80, 82, 73, 78, 84>> }
        queried == { <<72, 67, 83, 85, 63>> }
    IN  \A i \in 1..Len(ops) :
          /\ ops[i].op \in {"write", "query", "read_raw", "sleep"}
          /\ ops[i].op = "write" => ops[i].cmd \in written
          /\ ops[i].op = "query" => ops[i].cmd \in queried

\* A JPG call that sent its format command, the dump command, the print
\* command and the query.
C15_Witness ==
    /\ pc = "done"
    /\ token = JPG
    /\ Issued("write", FormatCommand(JPEG)) # {}
    /\ Issued("write", SCDP) # {}
    /\ Issued("write", HCSU_PRINT) # {}
    /\ Issued("query", HCSU_QUERY) # {}

\* C16: when the three reads deliver a well-formed block ('#', N in 1..9,
\* N digits spelling L, exactly L payload bytes), Method A raises nothing and
\* returns the payload bytes as read: none of the header or length bytes is
\* part of it, no payload byte is dropped or changed.
C16_RoundTrip ==
    WellFormedBlock =>
        /\ excA = NoExc
        /\ retA = Bytes(image_data)
        /\ image_data # <<>> => result = Returned(image_data)

\* The block "#11" and one payload byte came back as the call's result.
C16_Witness ==
    /\ pc = "done"
    /\ WellFormedBlock
    /\ header = <<35, 49>>
    /\ length_bytes = <<49>>
    /\ Len(image_data) = 1
    /\ result = Returned(image_data)

\* C17: when the header read returns no byte, or bytes the first of which is
\* not '#', Method A fails with "Invalid response header": it returns no
\* payload and reads neither a length nor a payload.
C17_HeaderValidation ==
    (ReadReturned(1) /\ (header = <<>> \/ header[1] # 35)) =>
        /\ excA = Exc("Exception", "Invalid response header", 0, 0)
        /\ retA = NoValue
        /\ Len(ReadOps) = 1
        /\ pc \in {"hcsu", "query", "done"}

\* Two header bytes were read and the first one is the digit '1'.
C17_Witness ==
    /\ ReadReturned(1)
    /\ Len(header) = 2
    /\ header[1] = 49
    /\ excA.msg = "Invalid response header"
    /\ pc = "query"

\* C18: when the header passes the '#' check and its second byte is the digit
\* '0', Method A fails with "Invalid length format"; no length field and no
\* payload is read for a digit count of zero.
C18_ZeroDigitCount ==
    (ReadReturned(1) /\ Len(header) >= 2 /\ header[1] = 35 /\ header[2] = 48) =>
        /\ excA = Exc("Exception", "Invalid length format", 0, 0)
        /\ retA = NoValue
        /\ Len(ReadOps) = 1
        /\ length_bytes = <<>> /\ image_data = <<>>

\* The header "#0" was read and rejected while bytes were still unread.
C18_Witness ==
    /\ ReadReturned(1)
    /\ header = <<35, 48>>
    /\ excA.msg = "Invalid length format"
    /\ unread > 0
    /\ pc = "hcsu"

\* C19: when the payload read returns a number of bytes other than the
\* declared length, fewer or more, Method A fails with the data-length
\* mismatch error that cites the declared and the received count; Method A
\* never returns a payload whose length is not the declared one.
C19_LengthCheck ==
    /\ (ReadReturned(3) /\ Len(image_data) # data_length) =>
          /\ excA = Exc("Exception", "Data length mismatch: expected {}, got {}",
                        data_length, Len(image_data))
          /\ retA = NoValue
    /\ retA.type = "bytes" =>
          /\ Len(retA.val) = data_length
          /\ ReadReturned(3) /\ ReadOps[3].n = data_length

\* Two bytes were declared and one delivered.
C19_Witness ==
    /\ ReadReturned(3)
    /\ data_length = 2
    /\ Len(image_data) = 1
    /\ excA.expected = 2 /\ excA.got = 1
    /\ pc = "hcsu"

\* C20: a length field that holds a byte other than an ASCII digit (a sign,
\* a space, an underscore, a letter) makes Method A fail: no length is taken
\* from it and no payload read follows.
C20_DigitsOnly ==
    (ReadReturned(2) /\ ~AllDigits(length_bytes)) =>
        /\ excA # NoExc
        /\ Len(ReadOps) = 2
        /\ pc \notin {"data"}

----------------------------------------------------------------------------
\* Vocabulary of the save_screenshot properties.

\* The extension of a path, without its dot: what follows the last dot of
\* the last path component when that dot is not at the start of the
\* component (leading dots make a hidden file, not an extension).
Extension(path) ==
    LET dots == {i \in 1..Len(path) :
                   /\ path[i] = 46
                   /\ \A j \in (i + 1)..Len(path) : path[j] \notin {46, 47}
                   /\ \E j \in 1..(i - 1) :
                        /\ path[j] \notin {46, 47}
                        /\ \A k \in j..i : path[k] # 47}
    IN  IF dots = {} THEN <<>>
        ELSE LET d == CHOOSE i \in dots : TRUE IN SubSeq(path, d + 1, Len(path))

\* The format the claim's table gives for a path.
TableFormat(path) ==
    IF CaseFolds(Extension(path), PNG) THEN PNG
    ELSE IF CaseFolds(Extension(path), BMP) THEN BMP
    ELSE IF CaseFolds(Extension(path), JPG) \/ CaseFolds(Extension(path), JPEG) THEN JPEG
    ELSE PNG

\* C13: when save_screenshot is called without a format, the format it
\* captures with is read off the filename's extension, letter case aside:
\* .png gives PNG, .bmp gives BMP, .jpg and .jpeg give JPEG, any other
\* extension and no extension give PNG; such a call never fails with the
\* unsupported-format error.
C13_Inference ==
    (save.active /\ ~save.given) =>
        /\ token = TableFormat(save.filename)
        /\ token \in {PNG, BMP, JPEG}
        /\ result.kind # "ValueError"

\* "a.JPG" without a format: the capture set the format JPEG.
C13_Witness ==
    /\ save.active /\ ~save.given
    /\ save.filename = <<97, 46, 74, 80, 71>>
    /\ token = JPEG
    /\ Issued("write", FormatCommand(JPEG)) # {}
    /\ pc = "scdp"

\* C14: save_screenshot captures with the format it was given, whatever the
\* path's extension, and with the format inferred from the path only when it
\* was given none; when it succeeds the file at the path holds exactly the
\* bytes capture_screenshot returned.
C14_SaveContent ==
    save.active =>
        /\ save.given => token = save.image_format
        /\ ~save.given => token = TableFormat(save.filename)
        /\ save.outcome = "written" =>
              /\ pc = "saved"
              /\ result.kind = "return"
              /\ file = FileWith(result.value)

\* "a.png" saved with the format "bmp": BMP was set and the returned bytes
\* replaced the file's earlier content.
C14_Witness ==
    /\ save.active /\ save.given
    /\ save.filename = <<97, 46, 112, 110, 103>>
    /\ save.image_format = <<98, 109, 112>>
    /\ Issued("write", FormatCommand(BMP)) # {}
    /\ save.outcome = "written"
    /\ result.value # <<>>
    /\ file = FileWith(result.value)

----------------------------------------------------------------------------
\* C12: a capture call changes no state of the engine, so a capture that
\* follows another one with the same format and gets the same responses from
\* the instrument issues the same transport operations in the same order and
\* ends with an equal result (the same bytes or the same failure); the
\* result of the earlier call stays what it was.
C12_Repeatable ==
    (prev.kept /\ pc # "idle" /\ SameResponses) =>
        /\ _scope = oscilloscope
        /\ Len(ops) <= Len(prev.ops)
        /\ ops = SubSeq(prev.ops, 1, Len(ops))
        /\ pc = "done" => (ops = prev.ops /\ result = prev.result)

\* A second call has decoded the same block as the first and returned the
\* same bytes.
C12_Witness ==
    /\ prev.kept
    /\ calls = 1
    /\ pc = "done"
    /\ Len(ReadOps) = 3
    /\ ops = prev.ops
    /\ result.kind = "return"
    /\ result = prev.result

----------------------------------------------------------------------------
\* C11: a capture call has the transport to itself from its first transport
\* operation to its last: no transport operation of another call falls
\* between two operations of the call.
C11_ExclusiveTransport ==
    ~(other.at > 0 /\ Len(ops) > other.at)

----------------------------------------------------------------------------
\* Vocabulary of the ordering properties.

\* Number of logged operations of one kind.
Count(op) == Cardinality({i \in DOMAIN ops : ops[i].op = op})

\* C21: when Method A decodes a block and returns, it has written SCDP once
\* and then issued exactly three read_raw requests, with nothing in between:
\* one for 2 bytes, one for N bytes, N being the digit in the second header
\* byte, and one for L bytes, L being the length decoded from the length
\* field.
C21_ReadProtocol ==
    retA.type = "bytes" =>
        /\ Cardinality(Issued("write", SCDP)) = 1
        /\ Len(ReadOps) = 3
        /\ Len(header) >= 2 /\ header[2] \in 49..57
        /\ AllDigits(length_bytes) => data_length = DigitsValue(length_bytes)
        /\ \E i \in DOMAIN ops :
              /\ ops[i] = WriteOp(SCDP, TRUE)
              /\ Len(ops) >= i + 3
              /\ ops[i + 1] = ReadOp(2, TRUE)
              /\ ops[i + 2] = ReadOp(header[2] - 48, TRUE)
              /\ ops[i + 3] = ReadOp(data_length, TRUE)

\* The block "#11" and one byte were decoded: reads of 2, 1 and 1 bytes.
C21_Witness ==
    /\ retA.type = "bytes"
    /\ Len(ops) = 6
    /\ ops[4].n = 2 /\ ops[5].n = 1 /\ ops[6].n = 1
    /\ Len(image_data) = 1
    /\ pc = "done"

\* C22: in every call that passes validation the format command is the
\* first transport operation and is written once; the 100 ms delay follows
\* it, and only then is SCDP written; no SCDP, HCSU PRINT or HCSU? precedes
\* the format command.
C22_FormatFirst ==
    (pc \notin {"idle", "called"} /\ result.kind # "ValueError") =>
        /\ ops # <<>>
        /\ ops[1].op = "write"
        /\ ops[1].cmd =
             <<72, 67, 83, 85, 32, 68, 69, 86, 44, 70, 79, 82, 77, 65, 84, 44>>
               \o image_format
        /\ FormatWrites = {1}
        /\ Len(ops) >= 2 => (ops[1].ok /\ ops[2] = SleepOp(100))
        /\ Len(ops) >= 3 => (ops[3].op = "write" /\ ops[3].cmd = SCDP)
        /\ \A i \in DOMAIN ops :
              ops[i].cmd \in {SCDP, HCSU_PRINT, HCSU_QUERY} => i >= 3

\* The format command, the delay and the SCDP write, in this order, in a
\* call that went on to read the header.
C22_Witness ==
    /\ pc = "length"
    /\ Len(ops) = 4
    /\ ops[1] = WriteOp(FormatCommand(BMP), TRUE)
    /\ ops[2] = SleepOp(100)
    /\ ops[3] = WriteOp(SCDP, TRUE)

\* C23: Method B writes HCSU PRINT, waits 200 ms, then issues the HCSU?
\* query: a query is always preceded by the delay and, before it, by the
\* trigger; the trigger is written at most once and the query issued at most
\* once in a call.
C23_TriggerThenQuery ==
    /\ \A i \in DOMAIN ops :
          ops[i].op = "query" =>
              /\ i >= 3
              /\ ops[i - 2] = WriteOp(HCSU_PRINT, TRUE)
              /\ ops[i - 1] = SleepOp(200)
    /\ Cardinality(Issued("write", HCSU_PRINT)) <= 1
    /\ Count("query") <= 1
    /\ pc = "query" => Cardinality(Issued("write", HCSU_PRINT)) = 1

\* The trigger, the delay and a query that returned data.
C23_Witness ==
    /\ pc = "done"
    /\ Count("query") = 1
    /\ ops[Len(ops)] = QueryOp(HCSU_QUERY, TRUE)
    /\ ops[Len(ops) - 2] = WriteOp(HCSU_PRINT, TRUE)
    /\ result.kind = "return"

\* C24: Method B takes the binary response of HCSU? as it is: it raises
\* nothing and returns the response unchanged, whether or not the response
\* starts with a block header and whether or not that header is well formed;
\* a non-empty response becomes the result of the call byte for byte.
C24_Verbatim ==
    response.type = "bytes" =>
        /\ excB = NoExc
        /\ retB = Bytes(response.val)
        /\ response.val # <<>> => result = Returned(response.val)

\* The response "#0", a header that Method A rejects, came back as the
\* result of the call.
C24_Witness ==
    /\ pc = "done"
    /\ response = Bytes(<<35, 48>>)
    /\ result = Returned(<<35, 48>>)

\* C25: within one call SCDP is written at most once, HCSU PRINT is written
\* at most once and HCSU? is queried at most once; HCSU PRINT and HCSU? come
\* only after the SCDP write; once Method B has ended the call is over and
\* the last transport operation of the call is Method B's.
C25_SingleFallback ==
    /\ Cardinality(Issued("write", SCDP)) <= 1
    /\ Cardinality(Issued("write", HCSU_PRINT)) <= 1
    /\ Cardinality(Issued("query", HCSU_QUERY)) <= 1
    /\ \A j \in Issued("write", HCSU_PRINT) \cup Issued("query", HCSU_QUERY) :
          \E i \in Issued("write", SCDP) : i < j
    /\ (retB # NoValue \/ excB # NoExc) =>
          /\ pc = "done"
          /\ ops[Len(ops)].cmd \in {HCSU_PRINT, HCSU_QUERY}

\* Both methods have raised and the call has ended with the failure.
C25_Witness ==
    /\ pc = "done"
    /\ excA # NoExc
    /\ excB # NoExc
    /\ result.kind = "RuntimeError"
    /\ Count("write") = 3
    /\ Count("query") = 1

\* C26: a well-formed block that declares the length 0 is no error inside
\* Method A, which returns an empty payload; the call does not end with that
\* empty payload but goes on to Method B as it does when Method A fails.
C26_EmptyBlock ==
    (WellFormedBlock /\ DigitsValue(length_bytes) = 0) =>
        /\ excA = NoExc
        /\ retA = Bytes(<<>>)
        /\ pc \in {"hcsu", "query", "done"}
        /\ pc = "done" =>
              /\ Issued("write", HCSU_PRINT) # {}
              /\ result # Returned(<<>>)
              /\ result.kind = "return" => result.value = response.val

\* The block "#10" was decoded to an empty payload and the trigger of
\* Method B has been written.
C26_Witness ==
    /\ WellFormedBlock
    /\ header = <<35, 49>>
    /\ length_bytes = <<48>>
    /\ retA = Bytes(<<>>)
    /\ pc = "query"

\* C27: when the format write raises, the call fails with the capture
\* failure that wraps the transport's exception, and the format write is the
\* only transport operation of the call: SCDP, HCSU PRINT and HCSU? are not
\* sent.
C27_FormatWriteRaises ==
    (ops # <<>> /\ ~ops[1].ok) =>
        /\ Len(ops) = 1
        /\ pc = "done"
        /\ result = Raised("RuntimeError", "Failed to capture screenshot: ", <<>>,
                           Exc("TimeoutError", "timed out", 0, 0))
        /\ excA = NoExc /\ excB = NoExc

\* The write of "HCSU DEV,FORMAT,JPEG" raised.
C27_Witness ==
    /\ pc = "done"
    /\ ops = <<WriteOp(FormatCommand(JPEG), FALSE)>>
    /\ result.kind = "RuntimeError"

\* C28: from the moment Method A has ended without usable data to the
\* HCSU PRINT write and the delay after it, the engine reads nothing off the
\* transport: the step logs no read_raw and the bytes of the SCDP response
\* that Method A left unread are all still unread when HCSU? is queried.
C28_NoDrain ==
    [][pc = "hcsu" =>
         /\ unread' = unread
         /\ \A i \in (Len(ops) + 1)..Len(ops') : ops'[i].op \in {"write", "sleep"}]_vars

\* Method A rejected the header it read and the query of Method B is due
\* while bytes of the SCDP response are unread.
C28_Witness ==
    /\ pc = "query"
    /\ ReadReturned(1)
    /\ header # <<>>
    /\ excA.msg = "Invalid response header"
    /\ Len(ReadOps) = 1
    /\ unread > 0

\* C29: save_screenshot touches the file only after capture_screenshot has
\* returned data: until then the path holds what it held when the call was
\* made; when the format is unsupported or the capture fails, the call ends
\* with that error and the file is neither created nor modified.
C29_FileUntouched ==
    save.active =>
        /\ pc # "saved" => (file = save.before /\ save.outcome = "none")
        /\ pc = "saved" => result.kind = "return"
        /\ result.kind \notin {"none", "return"} =>
              /\ pc = "done"
              /\ file = save.before

\* A capture for a path that held a file has failed with both methods; the
\* file is as it was.
C29_Witness ==
    /\ save.active
    /\ save.before = FileWith(<<48>>)
    /\ pc = "done"
    /\ result.kind = "RuntimeError"
    /\ excB # NoExc
    /\ file = FileWith(<<48>>)

\* C30: provided every transport operation returns or raises, every call
\* that is entered ends, returning or raising, and it issues at most 3
\* writes, 3 read_raw requests and 1 query.
C30_Terminates ==
    /\ [](Count("write") <= 3 /\ Count("read_raw") <= 3 /\ Count("query") <= 1)
    /\ (pc = "called" ~> pc = "done")

\* A call has ended after 3 writes, 3 reads and the query.
C30_Witness ==
    /\ pc = "done"
    /\ Count("write") = 3
    /\ Count("read_raw") = 3
    /\ Count("query") = 1

====
